---------------------------- MODULE Spec2Model ----------------------------
(***************************************************************************)
(* Shut the Box: the ShutTheBox class of src/shut_the_box.py (rules engine *)
(* and strategy selector) as a state machine.                              *)
(*                                                                         *)
(* A Python list or tuple is a TLA+ sequence.  self.tiles, self.rolls and  *)
(* self.moves are the object's fields; dice1, dice2, possible_moves and    *)
(* move are the locals of play_turn; score, tiles_closed and padded_moves  *)
(* are what play_game returns; pc is the position of the running call.     *)
(***************************************************************************)
EXTENDS Integers, Sequences, FiniteSets, TLC

VARIABLES
    tiles,           \* self.tiles: list of open tiles
    game_over,       \* self.game_over
    invalid_move,    \* self.invalid_move
    rolls,           \* self.rolls: list of (dice1, dice2)
    moves,           \* self.moves: list of applied moves
    strategy,        \* self.strategy
    PLAY_TYPE,       \* module configuration: 0 player control, 1 AI control
    pc,              \* position of the call in progress
    dice1, dice2,    \* play_turn locals (0 outside a turn)
    possible_moves,  \* play_turn local
    move,            \* play_turn local
    score,           \* play_game result
    tiles_closed,    \* play_game result
    padded_moves,    \* play_game result: pad_moves(self.moves)
    error,           \* exception that left the call, "none" if none
    extra            \* number of play_turn calls made after play_game returned

vars == << tiles, game_over, invalid_move, rolls, moves, strategy, PLAY_TYPE,
           pc, dice1, dice2, possible_moves, move, score, tiles_closed,
           padded_moves, error, extra >>

---------------------------------------------------------------------------
(* Program constants *)

\* list(range(1, 10)): tiles 1..NumTiles
NumTiles == 9

\* pad_moves(moves, length=5, pad_value=0)
PadLength == 5

\* random.randint(1, 6)
DieMax == 6

\* middle = 5 of the Inside Out / Outside In strategies
Middle == 5

(* Bounds of the model *)

\* the dice faces explored are the HighFaces highest ones, (DieMax-HighFaces+1)..DieMax
HighFaces == 2

\* longest move a player types at the prompt (besides the legal moves themselves)
MaxInputLen == 2

\* under player control, the turns in which the player types free-form input;
\* in later turns the player picks one of the listed moves
MaxTypedTurns == 2

\* play_turn calls explored after play_game has returned
MaxExtraCalls == 1

Faces == (IF HighFaces >= DieMax THEN 1 ELSE DieMax - HighFaces + 1) .. DieMax

Strategies == 0..5

---------------------------------------------------------------------------
(* Python helpers *)

Range(s) == { s[i] : i \in 1..Len(s) }

RECURSIVE SumSeq(_)
SumSeq(s) == IF s = <<>> THEN 0 ELSE Head(s) + SumSeq(Tail(s))

RECURSIVE SumSet(_)
SumSet(S) == IF S = {} THEN 0
             ELSE LET x == CHOOSE y \in S : TRUE IN x + SumSet(S \ {x})

Abs(x) == IF x < 0 THEN -x ELSE x

MinOf(S) == CHOOSE x \in S : \A y \in S : x <= y

\* list.remove(x): drop the first occurrence of x (x is in the list)
RECURSIVE Remove(_, _)
Remove(s, x) == IF s = <<>> THEN <<>>
                ELSE IF Head(s) = x THEN Tail(s)
                ELSE <<Head(s)>> \o Remove(Tail(s), x)

\* list(range(1, 10))
InitialTiles == [i \in 1..NumTiles |-> i]

\* the ascending list of the members of a set of tiles
RECURSIVE SortedSeq(_)
SortedSeq(S) == IF S = {} THEN <<>>
                ELSE LET x == MinOf(S) IN <<x>> \o SortedSeq(S \ {x})

\* itertools.combinations(s, k): the k-element subsequences of s, in
\* lexicographic order of positions
RECURSIVE Combinations(_, _)
Combinations(s, k) ==
    IF k = 0 THEN << <<>> >>
    ELSE IF Len(s) < k THEN <<>>
    ELSE LET with == Combinations(Tail(s), k - 1)
         IN  [i \in 1..Len(with) |-> <<Head(s)>> \o with[i]]
             \o Combinations(Tail(s), k)

---------------------------------------------------------------------------
(* Rules engine *)

\* mutant: only the sum is tested
IsValidMoveSumOnly(t, m, total) == SumSeq(m) = total

\* mutant: the membership test the wrong way round (every open tile must be in the move)
IsValidMoveSwapped(t, m, total) ==
    SumSeq(m) = total /\ \A i \in 1..Len(t) : t[i] \in Range(m)

\* is_valid_move: sum(move) == total and all(tile in self.tiles for tile in move)
IsValidMove(t, m, total) ==
    SumSeq(m) = total /\ \A i \in 1..Len(m) : m[i] \in Range(t)

\* make_move: for tile in move: self.tiles.remove(tile).  list.remove raises
\* ValueError on a tile that is not in the list; the tiles removed before it
\* stay removed.
RECURSIVE MakeMove(_, _)
MakeMove(t, m) ==
    IF m = <<>> THEN [tiles |-> t, raised |-> FALSE]
    ELSE IF Head(m) \notin Range(t) THEN [tiles |-> t, raised |-> TRUE]
    ELSE MakeMove(Remove(t, Head(m)), Tail(m))

\* the combinations of size i of the tiles that sum to total
MovesOfSize(t, total, i) ==
    SelectSeq(Combinations(t, i), LAMBDA c : SumSeq(c) = total)

\* mutant: the sizes are enumerated from the largest down
RECURSIVE MovesUpToLargestFirst(_, _, _)
MovesUpToLargestFirst(t, total, n) ==
    IF n = 0 THEN <<>>
    ELSE MovesOfSize(t, total, n) \o MovesUpToLargestFirst(t, total, n - 1)

\* get_possible_moves: for i in range(1, len(tiles)+1): for combo in
\* combinations(tiles, i): if sum(combo) == total: append
RECURSIVE MovesUpTo(_, _, _)
MovesUpTo(t, total, n) ==
    IF n = 0 THEN <<>>
    ELSE MovesUpTo(t, total, n - 1) \o MovesOfSize(t, total, n)

\* mutant: only single tiles and pairs are considered
GetPossibleMovesPairs(t, total) == MovesUpTo(t, total, IF Len(t) < 2 THEN Len(t) ELSE 2)

\* mutant: the combinations are taken from all nine tiles, open or not
GetPossibleMovesAllTiles(t, total) == MovesUpTo(InitialTiles, total, NumTiles)

GetPossibleMoves(t, total) == MovesUpTo(t, total, Len(t))

\* mutant: the test for a stuck roll is missing
NoMovesLeftNever(pm) == FALSE

\* mutant: a roll with a single legal move is taken for a stuck one
NoMovesLeftOffByOne(pm) == Len(pm) <= 1

\* play_turn: `if not possible_moves`
NoMovesLeft(pm) == pm = <<>>

\* mutant: `self.rolls.pop(0)`, the oldest roll is dropped
DropLastRollFirst(r) == Tail(r)

\* mutant: the stuck roll stays recorded
DropLastRollForgotten(r) == r

\* play_turn: `self.rolls.pop()`
DropLastRoll(r) == SubSeq(r, 1, Len(r) - 1)

\* mutant: the shut-the-box test is missing
BoxShutNever(t) == FALSE

\* play_turn: `if not self.tiles`
BoxShut(t) == t = <<>>

\* mutant: one pad value too few
PadMovesOneShort(ms, length, pad_value) ==
    [k \in 1..Len(ms) |->
        ms[k] \o [i \in 1..(IF length - 1 > Len(ms[k]) THEN length - 1 - Len(ms[k]) ELSE 0)
                     |-> pad_value]]

\* pad_moves: [list(move) + [pad_value] * (length - len(move)) for move in moves];
\* a list times a negative number is the empty list
PadMoves(ms, length, pad_value) ==
    [k \in 1..Len(ms) |->
        ms[k] \o [i \in 1..(IF length > Len(ms[k]) THEN length - Len(ms[k]) ELSE 0)
                     |-> pad_value]]

\* play_game: score = sum(self.tiles)
Score(t) == SumSeq(t)

\* mutant: the count starts from the end of range(1, 10)
TilesClosedFromTen(t) == NumTiles + 1 - Len(t)

\* play_game: tiles_closed = 9 - len(self.tiles)
TilesClosed(t) == NumTiles - Len(t)

---------------------------------------------------------------------------
(* Strategy selector *)

\* calculate_tile_probabilities, in units of 1/36: tile i gathers the number
\* of dice pairs of every sum s with i <= s <= 9.  (The code adds the floats
\* k/36; the order of the scores it compares is that of these integers.)
SumProbabilities(s) == IF s <= DieMax + 1 THEN s - 1 ELSE 2 * DieMax + 1 - s

RECURSIVE TileProbabilityUpTo(_, _)
TileProbabilityUpTo(i, s) ==
    IF s < 2 THEN 0
    ELSE (IF i <= s /\ s <= 9 THEN SumProbabilities(s) ELSE 0)
         + TileProbabilityUpTo(i, s - 1)

\* mutant: `i < total`, a tile gathers no weight from the sum equal to itself
TileProbabilityStrict(i) == TileProbabilityUpTo(i + 1, 2 * DieMax)

TileProbability(i) == TileProbabilityUpTo(i, 2 * DieMax)

\* move_probability = sum(tile_probabilities[tile] for tile in move)
RECURSIVE MoveProbability(_)
MoveProbability(m) ==
    IF m = <<>> THEN 0 ELSE TileProbability(Head(m)) + MoveProbability(Tail(m))

\* mutant: the distance is taken from the first tile of the move only
MinDistanceOfFirstTile(m) == Abs(m[1] - Middle)

\* min(abs(tile - middle) for tile in move)
MinDistance(m) == MinOf({ Abs(m[i] - Middle) : i \in 1..Len(m) })

\* mutant: the last move of the greatest length
FirstLongestLast(pm) ==
    LET i == CHOOSE j \in 1..Len(pm) :
                 /\ \A k \in 1..Len(pm) : Len(pm[k]) <= Len(pm[j])
                 /\ \A k \in (j + 1)..Len(pm) : Len(pm[k]) < Len(pm[j])
    IN  pm[i]

\* max(possible_moves, key=len): the first move of the greatest length
FirstLongest(pm) ==
    LET i == CHOOSE j \in 1..Len(pm) :
                 /\ \A k \in 1..Len(pm) : Len(pm[k]) <= Len(pm[j])
                 /\ \A k \in 1..(j - 1) : Len(pm[k]) < Len(pm[j])
    IN  pm[i]

\* mutant: max instead of min, the first move of the greatest score
FirstMostProbable(pm) ==
    LET i == CHOOSE j \in 1..Len(pm) :
                 /\ \A k \in 1..Len(pm) : MoveProbability(pm[j]) >= MoveProbability(pm[k])
                 /\ \A k \in 1..(j - 1) : MoveProbability(pm[j]) > MoveProbability(pm[k])
    IN  pm[i]

\* min(move_probabilities, key=lambda x: x[1])[0]: the first move of the least score
FirstLeastProbable(pm) ==
    LET i == CHOOSE j \in 1..Len(pm) :
                 /\ \A k \in 1..Len(pm) : MoveProbability(pm[j]) <= MoveProbability(pm[k])
                 /\ \A k \in 1..(j - 1) : MoveProbability(pm[j]) < MoveProbability(pm[k])
    IN  pm[i]

\* list.sort(key=lambda move: sign * min(abs(tile - middle) ...)): stable, in place
SortKey(m, sign) == sign * MinDistance(m)

\* mutant: an unstable sort, a move goes before the moves of equal key
InsertByKeyBeforeTies(x, s, sign) ==
    LET n == Cardinality({ i \in 1..Len(s) : SortKey(s[i], sign) < SortKey(x, sign) })
    IN  SubSeq(s, 1, n) \o <<x>> \o SubSeq(s, n + 1, Len(s))

InsertByKey(x, s, sign) ==
    LET n == Cardinality({ i \in 1..Len(s) : SortKey(s[i], sign) <= SortKey(x, sign) })
    IN  SubSeq(s, 1, n) \o <<x>> \o SubSeq(s, n + 1, Len(s))

RECURSIVE SortMoves(_, _)
SortMoves(pm, sign) ==
    IF pm = <<>> THEN <<>>
    ELSE InsertByKey(pm[Len(pm)], SortMoves(SubSeq(pm, 1, Len(pm) - 1), sign), sign)

\* `[total] in possible_moves`: possible_moves holds the tuples combinations()
\* yields and [total] is a list; Python never finds a list equal to a tuple.
ListEqualsTuple(l, t) == FALSE

\* mutant: the single tile is taken without looking it up in the list
SingleTileMoveUnchecked(pm, total) == IF total <= NumTiles THEN <<total>> ELSE <<>>

SingleTileMove(pm, total) ==
    IF \E i \in 1..Len(pm) : ListEqualsTuple(<<total>>, pm[i]) THEN <<total>> ELSE <<>>

\* mutant: `set(move) == {dice1}`, the second die is left out
IndividualMovesFirstDie(pm, d1, d2) == SelectSeq(pm, LAMBDA m : Range(m) = {d1})

\* mutant: the dice faces are taken as the move without looking them up in the list
IndividualMovesUnchecked(pm, d1, d2) == IF d1 # d2 THEN << <<d1, d2>> >> ELSE <<>>

\* [move for move in possible_moves if set(move) == {dice1, dice2}]
IndividualMoves(pm, d1, d2) == SelectSeq(pm, LAMBDA m : Range(m) = {d1, d2})

\* the possible_moves list after ai_player returns (strategies 4 and 5 sort it in place)
MovesAfterAi(strat, pm) ==
    IF pm = <<>> THEN pm
    ELSE IF strat = 4 THEN SortMoves(pm, 1)
    ELSE IF strat = 5 THEN SortMoves(pm, -1)
    ELSE pm

\* mutant: strategy 2 draws at random among the moves of the greatest length
AiPlayerRandomTies(strat, pm, d1, d2, total) ==
    IF pm = <<>> THEN { <<>> }
    ELSE IF strat = 0 THEN Range(pm)
    ELSE IF strat = 1 THEN
        IF SingleTileMove(pm, total) # <<>> THEN { SingleTileMove(pm, total) }
        ELSE IF IndividualMoves(pm, d1, d2) # <<>> THEN { IndividualMoves(pm, d1, d2)[1] }
        ELSE Range(pm)
    ELSE IF strat = 2 THEN { pm[i] : i \in { j \in 1..Len(pm) : Len(pm[j]) = Len(FirstLongest(pm)) } }
    ELSE IF strat = 3 THEN { FirstLeastProbable(pm) }
    ELSE IF strat = 4 THEN { SortMoves(pm, 1)[1] }
    ELSE IF strat = 5 THEN { SortMoves(pm, -1)[1] }
    ELSE Range(pm)

\* ai_player: the moves it may return (random.choice may return any element)
AiPlayer(strat, pm, d1, d2, total) ==
    IF pm = <<>> THEN { <<>> }
    ELSE IF strat = 0 THEN Range(pm)
    ELSE IF strat = 1 THEN
        IF SingleTileMove(pm, total) # <<>> THEN { SingleTileMove(pm, total) }
        ELSE IF IndividualMoves(pm, d1, d2) # <<>> THEN { IndividualMoves(pm, d1, d2)[1] }
        ELSE Range(pm)
    ELSE IF strat = 2 THEN { FirstLongest(pm) }
    ELSE IF strat = 3 THEN { FirstLeastProbable(pm) }
    ELSE IF strat = 4 THEN { SortMoves(pm, 1)[1] }
    ELSE IF strat = 5 THEN { SortMoves(pm, -1)[1] }
    ELSE Range(pm)

---------------------------------------------------------------------------
(* The game: __init__, play_game and play_turn *)

\* ShutTheBox(current_strategy), before play_game is called
NewGame(playType, strat) ==
    /\ tiles = InitialTiles
    /\ game_over = FALSE
    /\ invalid_move = FALSE
    /\ rolls = <<>>
    /\ moves = <<>>
    /\ strategy = strat
    /\ PLAY_TYPE = playType
    /\ pc = "play_game"
    /\ dice1 = 0
    /\ dice2 = 0
    /\ possible_moves = <<>>
    /\ move = <<>>
    /\ score = -1
    /\ tiles_closed = -1
    /\ padded_moves = <<>>
    /\ error = "none"
    /\ extra = 0

\* simulate_games: game = ShutTheBox(strategy) for a strategy of STRATEGIES, PLAY_TYPE = 1
Init == \E strat \in Strategies : NewGame(1, strat)

\* where play_turn returns to: the loop of play_game, or the caller that
\* called play_turn itself after the game
Return == IF extra > 0 THEN "done" ELSE "play_game"

\* play_game: `while not self.game_over: self.play_turn()`, and play_turn up
\* to its loop: roll the dice, record the roll, prepare the loop
Roll ==
    /\ pc = "play_game"
    /\ ~game_over
    /\ \E d1 \in Faces, d2 \in Faces :
         /\ dice1' = d1
         /\ dice2' = d2
         /\ rolls' = Append(rolls, <<d1, d2>>)
    /\ invalid_move' = TRUE
    /\ pc' = "enumerate"
    /\ UNCHANGED << tiles, game_over, moves, padded_moves, strategy, PLAY_TYPE, possible_moves,
                    move, score, tiles_closed, error, extra >>

\* play_turn, head of the loop body: the legal moves; none ends the game,
\* drops the roll and leaves the loop
Enumerate ==
    /\ pc = "enumerate"
    /\ LET pm == GetPossibleMoves(tiles, dice1 + dice2) IN
         IF NoMovesLeft(pm)
         THEN /\ game_over' = TRUE
              /\ rolls' = DropLastRoll(rolls)
              /\ possible_moves' = <<>>
              /\ dice1' = 0
              /\ dice2' = 0
              /\ pc' = Return
         ELSE /\ possible_moves' = pm
              /\ pc' = "select"
              /\ UNCHANGED << game_over, rolls, dice1, dice2 >>
    /\ UNCHANGED << tiles, invalid_move, moves, padded_moves, strategy, PLAY_TYPE, move, score,
                    tiles_closed, error, extra >>

\* play_turn, PLAY_TYPE 1: move = self.ai_player(possible_moves, dice1, dice2, total)
AiSelect ==
    /\ pc = "select"
    /\ PLAY_TYPE = 1
    /\ move' \in AiPlayer(strategy, possible_moves, dice1, dice2, dice1 + dice2)
    /\ possible_moves' = MovesAfterAi(strategy, possible_moves)
    /\ pc' = "validate"
    /\ UNCHANGED << tiles, game_over, invalid_move, rolls, moves, padded_moves, strategy, PLAY_TYPE,
                    dice1, dice2, score, tiles_closed, error, extra >>

\* play_turn, rest of the loop body: validate the move and apply it, then
\* the shut-the-box test and the loop condition
Validate ==
    /\ pc = "validate"
    /\ LET valid   == IsValidMove(tiles, move, dice1 + dice2)
           made    == MakeMove(tiles, move)
           raised  == valid /\ made.raised
           after   == IF valid THEN made.tiles ELSE tiles
           shut    == ~raised /\ BoxShut(after)
           again   == ~valid
       IN  /\ invalid_move' = ~valid
           /\ tiles' = after
           /\ moves' = IF valid /\ ~raised THEN Append(moves, move) ELSE moves
           /\ error' = IF raised THEN "ValueError" ELSE error
           /\ game_over' = IF shut THEN TRUE ELSE game_over
           /\ pc' = IF raised THEN "raised" ELSE IF again THEN "enumerate" ELSE Return
           /\ possible_moves' = IF raised \/ again THEN possible_moves ELSE <<>>
           /\ dice1' = IF raised \/ again THEN dice1 ELSE 0
           /\ dice2' = IF raised \/ again THEN dice2 ELSE 0
    /\ UNCHANGED << rolls, padded_moves, strategy, PLAY_TYPE, move, score, tiles_closed, extra >>

\* play_game, after its loop: score = sum(self.tiles), tiles_closed = 9 - len(self.tiles)
Finish ==
    /\ pc = "play_game"
    /\ game_over
    /\ score' = Score(tiles)
    /\ tiles_closed' = TilesClosed(tiles)
    /\ padded_moves' = PadMoves(moves, PadLength, 0)
    /\ pc' = "done"
    /\ UNCHANGED << tiles, game_over, invalid_move, rolls, moves, strategy, PLAY_TYPE,
                    dice1, dice2, possible_moves, move, error, extra >>

Next == Roll \/ Enumerate \/ AiSelect \/ Validate \/ Finish

Spec == Init /\ [][Next]_vars

\* ShutTheBox(): `current_strategy=None`.  None equals none of the tags 0..5
\* that ai_player compares self.strategy with; it is written as a number
\* outside 0..5, as is a configured tag that names no strategy.
NoStrategy == -1

UnknownStrategies == { NoStrategy, 6 }

\* game = ShutTheBox() or ShutTheBox(tag) for a tag outside STRATEGIES, PLAY_TYPE = 1
InitUnknown == \E strat \in UnknownStrategies : NewGame(1, strat)

SpecUnknown == InitUnknown /\ [][Next]_vars

---------------------------------------------------------------------------
(* Player control (PLAY_TYPE = 0) *)

\* the sequences of tile values of length 1..n
RECURSIVE TypedMoves(_)
TypedMoves(n) ==
    IF n = 0 THEN {}
    ELSE TypedMoves(n - 1) \cup [1..n -> 1..NumTiles]

\* what input() may return: any typed move in the first turns, a listed move later
PlayerInputs(pm) ==
    IF Len(moves) < MaxTypedTurns THEN TypedMoves(MaxInputLen) \cup Range(pm)
    ELSE Range(pm)

InitPlayer == NewGame(0, 0)

\* play_turn, PLAY_TYPE 0: move = list(map(int, input(...).split()))
PlayerSelect ==
    /\ pc = "select"
    /\ PLAY_TYPE = 0
    /\ move' \in PlayerInputs(possible_moves)
    /\ pc' = "validate"
    /\ UNCHANGED << tiles, game_over, invalid_move, rolls, moves, padded_moves, strategy, PLAY_TYPE,
                    dice1, dice2, possible_moves, score, tiles_closed, error, extra >>

NextPlayer == Roll \/ Enumerate \/ PlayerSelect \/ Validate \/ Finish

SpecPlayer == InitPlayer /\ [][NextPlayer]_vars

---------------------------------------------------------------------------
(* Calls made on a game after play_game has returned *)

\* game.play_turn() called again: play_turn up to its loop
CallPlayTurn ==
    /\ pc = "done"
    /\ error = "none"
    /\ extra < MaxExtraCalls
    /\ extra' = extra + 1
    /\ \E d1 \in Faces, d2 \in Faces :
         /\ dice1' = d1
         /\ dice2' = d2
         /\ rolls' = Append(rolls, <<d1, d2>>)
    /\ invalid_move' = TRUE
    /\ pc' = "enumerate"
    /\ UNCHANGED << tiles, game_over, moves, padded_moves, strategy, PLAY_TYPE, possible_moves,
                    move, score, tiles_closed, error >>

\* game.play_game() called again: game_over holds, the loop is skipped
CallPlayGame ==
    /\ pc = "done"
    /\ game_over
    /\ score' = Score(tiles)
    /\ tiles_closed' = TilesClosed(tiles)
    /\ padded_moves' = PadMoves(moves, PadLength, 0)
    /\ UNCHANGED << tiles, game_over, invalid_move, rolls, moves, strategy, PLAY_TYPE,
                    pc, dice1, dice2, possible_moves, move, error, extra >>

NextReplay == Roll \/ Enumerate \/ AiSelect \/ Validate \/ Finish
              \/ CallPlayTurn \/ CallPlayGame

SpecReplay == Init /\ [][NextReplay]_vars

---------------------------------------------------------------------------
(* The rules engine called on any tile set *)

AllFaces == 1..DieMax

\* a game whose open tiles are any subset of 1..9, in ascending order
InitFn ==
    /\ tiles \in { SortedSeq(S) : S \in SUBSET (1..NumTiles) }
    /\ game_over = FALSE
    /\ invalid_move = FALSE
    /\ rolls = <<>>
    /\ moves = <<>>
    /\ strategy \in Strategies
    /\ PLAY_TYPE = 1
    /\ pc = "api"
    /\ dice1 = 0
    /\ dice2 = 0
    /\ possible_moves = <<>>
    /\ move = <<>>
    /\ score = -1
    /\ tiles_closed = -1
    /\ padded_moves = <<>>
    /\ error = "none"
    /\ extra = 0

\* dice1, dice2 = roll_dice(); possible_moves = get_possible_moves(dice1 + dice2)
CallGetPossibleMoves ==
    /\ pc = "api"
    /\ \E d1 \in AllFaces, d2 \in AllFaces :
         /\ dice1' = d1
         /\ dice2' = d2
         /\ possible_moves' = GetPossibleMoves(tiles, d1 + d2)
    /\ pc' = "moves"
    /\ UNCHANGED << tiles, game_over, invalid_move, rolls, moves, padded_moves, strategy, PLAY_TYPE,
                    move, score, tiles_closed, error, extra >>

\* move = ai_player(possible_moves, dice1, dice2, dice1 + dice2), on a list
\* get_possible_moves returned; strategies 4 and 5 sort the caller's list
CallAiPlayer ==
    /\ pc = "moves"
    /\ move' \in AiPlayer(strategy, possible_moves, dice1, dice2, dice1 + dice2)
    /\ possible_moves' = MovesAfterAi(strategy, possible_moves)
    /\ pc' = "chosen"
    /\ UNCHANGED << tiles, game_over, invalid_move, rolls, moves, padded_moves, strategy, PLAY_TYPE,
                    dice1, dice2, score, tiles_closed, error, extra >>

NextFn == CallGetPossibleMoves \/ CallAiPlayer

SpecFn == InitFn /\ [][NextFn]_vars

---------------------------------------------------------------------------
(* The rules engine called by itself, on a game object in any tile set *)

InitApi == InitFn /\ strategy = 0

\* dice1, dice2 = game.roll_dice()
CallRollDice ==
    /\ pc = "api"
    /\ dice1' \in AllFaces
    /\ dice2' \in AllFaces
    /\ pc' = "rolled"
    /\ UNCHANGED << tiles, game_over, invalid_move, rolls, moves, padded_moves, strategy, PLAY_TYPE,
                    possible_moves, move, score, tiles_closed, error, extra >>

\* possible_moves = game.get_possible_moves(dice1 + dice2), called once or again
CallGetPossibleMovesAgain ==
    /\ pc \in {"rolled", "moves"}
    /\ possible_moves' = GetPossibleMoves(tiles, dice1 + dice2)
    /\ pc' = "moves"
    /\ UNCHANGED << tiles, game_over, invalid_move, rolls, moves, padded_moves, strategy, PLAY_TYPE,
                    dice1, dice2, move, score, tiles_closed, error, extra >>

\* mutant: the test takes the tiles it finds out of the game's own list
CallIsValidMoveConsuming ==
    /\ \/ pc = "moves" /\ move' \in TypedMoves(MaxInputLen) \cup Range(possible_moves)
       \/ pc = "judged" /\ move' = move
    /\ invalid_move' = ~IsValidMove(tiles, move', dice1 + dice2)
    /\ tiles' = MakeMove(tiles, move').tiles
    /\ pc' = "judged"
    /\ UNCHANGED << game_over, rolls, moves, padded_moves, strategy, PLAY_TYPE, dice1, dice2,
                    possible_moves, score, tiles_closed, error, extra >>

\* invalid_move = not game.is_valid_move(move, dice1 + dice2), on a typed or
\* a listed move, and again on the same move
CallIsValidMove ==
    /\ \/ pc = "moves" /\ move' \in TypedMoves(MaxInputLen) \cup Range(possible_moves)
       \/ pc = "judged" /\ move' = move
    /\ invalid_move' = ~IsValidMove(tiles, move', dice1 + dice2)
    /\ pc' = "judged"
    /\ UNCHANGED << tiles, game_over, rolls, moves, padded_moves, strategy, PLAY_TYPE, dice1, dice2,
                    possible_moves, score, tiles_closed, error, extra >>

NextApi == CallRollDice \/ CallGetPossibleMovesAgain \/ CallIsValidMove

SpecApi == InitApi /\ [][NextApi]_vars

---------------------------------------------------------------------------
(* Claims *)

Distinct(s) == \A i, j \in 1..Len(s) : i # j => s[i] # s[j]

RECURSIVE SumAll(_)
SumAll(ms) == IF ms = <<>> THEN 0 ELSE SumSeq(Head(ms)) + SumAll(Tail(ms))

RECURSIVE CountAll(_)
CountAll(ms) == IF ms = <<>> THEN 0 ELSE Len(Head(ms)) + CountAll(Tail(ms))

\* the roll of the turn in progress has no subset of the open tiles summing to it
StuckRoll ==
    /\ pc = "enumerate"
    /\ ~ \E S \in SUBSET Range(tiles) : S # {} /\ SumSet(S) = dice1 + dice2

\* C1: get_possible_moves(t) returns exactly the non-empty subsets of the
\* tiles that sum to t: each returned move is a subset of the tiles, without
\* repetition, summing to t; each such subset, of any size, is returned; and
\* none is returned twice.
C1_MovesAreExactlyTheSubsets ==
    pc = "moves" =>
        LET pm == possible_moves
            t  == dice1 + dice2
        IN  /\ \A i \in 1..Len(pm) :
                  /\ Range(pm[i]) \subseteq Range(tiles)
                  /\ Distinct(pm[i])
                  /\ SumSeq(pm[i]) = t
            /\ \A S \in SUBSET Range(tiles) :
                  (S # {} /\ SumSet(S) = t) => \E i \in 1..Len(pm) : Range(pm[i]) = S
            /\ \A i, j \in 1..Len(pm) : i # j => Range(pm[i]) # Range(pm[j])

\* C1 witness: a call on a total that has moves of one, two and three tiles
C1_Witness ==
    /\ pc = "moves"
    /\ \E i, j, k \in 1..Len(possible_moves) :
         Len(possible_moves[i]) = 1 /\ Len(possible_moves[j]) = 2
         /\ Len(possible_moves[k]) = 3

\* C2 (as claimed): where play_turn calls is_valid_move, it returns true if
\* and only if the move sums to the total, names open tiles only and names
\* no tile twice.
C2_ValidIffDistinctOpenSum ==
    pc = "validate" =>
        (IsValidMove(tiles, move, dice1 + dice2)
            <=> /\ SumSeq(move) = dice1 + dice2
                /\ Range(move) \subseteq Range(tiles)
                /\ Distinct(move))

\* C3 (as claimed): make_move called with a move that names a closed tile or
\* the same tile twice raises an error and leaves the tile set as it was.
C3_InvalidMoveLeavesTiles ==
    [][ ( /\ pc = "validate"
          /\ IsValidMove(tiles, move, dice1 + dice2)
          /\ ~ (Range(move) \subseteq Range(tiles) /\ Distinct(move)) )
        => (error' # "none" /\ tiles' = tiles) ]_vars

\* C4: the tile set always holds distinct values of 1..9, starts as 1..9 and
\* never gains a tile; no move offered by get_possible_moves names a tile an
\* earlier move removed.
C4_TilesOnlyShrink ==
    /\ tiles = InitialTiles
    /\ [](Distinct(tiles) /\ Range(tiles) \subseteq 1..9)
    /\ [][Range(tiles') \subseteq Range(tiles)]_vars
    /\ [](\A i \in 1..Len(possible_moves), j \in 1..Len(moves) :
             Range(possible_moves[i]) \cap Range(moves[j]) = {})

\* C4 witness: a second turn offers moves after the first turn removed tiles
C4_Witness ==
    /\ pc = "select"
    /\ Len(moves) >= 1
    /\ Len(tiles) < NumTiles
    /\ possible_moves # <<>>

\* C5: game_over starts false; a step of play_turn sets it exactly when the
\* roll has no legal move or the applied move empties the tile set; and
\* play_game returns only with game_over true.
C5_GameOverExactly ==
    /\ game_over = FALSE
    /\ [][ ~game_over =>
             (game_over' <=> \/ StuckRoll
                             \/ (pc = "validate" /\ moves' # moves /\ tiles' = <<>>)) ]_vars
    /\ [](pc = "done" => game_over)

\* C5 witness: play_game has returned from a stuck game
C5_Witness == pc = "done" /\ game_over /\ tiles # <<>> /\ Len(moves) >= 2

\* C6 (as claimed): once game_over is true, no step changes the tile set, the
\* recorded rolls, the recorded moves or the flag.
C6_TerminalIsImmutable ==
    [][ game_over => /\ tiles' = tiles
                     /\ rolls' = rolls
                     /\ moves' = moves
                     /\ game_over' = game_over ]_vars

\* C7: a roll without a legal move sets game_over and is removed from the
\* recorded rolls; in a completed game every recorded roll is the roll of the
\* recorded move at the same place, and there are as many rolls as moves.
C7_StuckRollDropped ==
    /\ [][ StuckRoll => (game_over' /\ rolls' = SubSeq(rolls, 1, Len(rolls) - 1)) ]_vars
    /\ []( (game_over /\ pc \in {"play_game", "done"}) =>
             /\ Len(rolls) = Len(moves)
             /\ \A i \in 1..Len(rolls) : SumSeq(moves[i]) = rolls[i][1] + rolls[i][2] )

\* C7 witness: a stuck game just after the roll was dropped
C7_Witness == pc = "play_game" /\ game_over /\ tiles # <<>> /\ Len(rolls) >= 1

\* C8: the move that empties the tile set ends the game within its turn and no
\* roll is taken with an empty tile set; play_game then reports score 0 and
\* tiles_closed 9, and reports score 0 only for an empty tile set.
C8_PerfectGame ==
    /\ [][ (tiles # <<>> /\ tiles' = <<>>) => (game_over' /\ pc' = "play_game") ]_vars
    /\ [][ tiles = <<>> => rolls' = rolls ]_vars
    /\ []( (pc = "done" /\ tiles = <<>>) => (score = 0 /\ tiles_closed = 9) )
    /\ []( (pc = "done" /\ score = 0) => tiles = <<>> )

\* C8 witness: play_game has returned from a game that shut the box
C8_Witness == pc = "done" /\ tiles = <<>> /\ score = 0

\* C9: when play_game has returned, score plus the sum of the tiles of the
\* recorded moves is 45, and tiles_closed is 9 minus the number of open tiles,
\* which is the number of tiles in the recorded moves.
C9_ScoreAccounting ==
    pc = "done" =>
        /\ score + SumAll(moves) = 45
        /\ tiles_closed = 9 - Len(tiles)
        /\ tiles_closed = CountAll(moves)

\* C9 witness: a completed game with several moves and tiles left open
C9_Witness == pc = "done" /\ score > 0 /\ Len(moves) >= 3

\* what is left of a game: eight units per open tile plus the steps left in
\* the turn; it is never negative
Variant ==
    8 * Len(tiles)
    + (IF pc = "done" THEN 0
       ELSE IF pc = "play_game" /\ game_over THEN 1
       ELSE IF pc = "validate" THEN 2
       ELSE IF pc = "select" THEN 3
       ELSE IF pc = "enumerate" THEN 4
       ELSE 5)

\* C10: under AI control with a strategy 0..5 play_game returns whatever the
\* dice show: every step brings the game closer to its end (the variant
\* decreases, so no run goes on for ever), each pass of the turn either ends
\* the game or applies a move that closes at least one tile and ends the
\* turn, and no game has more than 9 applied moves.
C10_GameTerminates ==
    /\ [][ Variant' < Variant ]_vars
    /\ [](Variant >= 0 /\ Len(moves) <= 9)
    /\ [](pc \in {"play_game", "enumerate", "select", "validate", "done"})
    /\ [][ pc = "enumerate" => ((game_over' /\ pc' = "play_game") \/ pc' = "select") ]_vars
    /\ [][ pc = "validate" => /\ moves' = Append(moves, move)
                              /\ Len(tiles') < Len(tiles)
                              /\ pc' = "play_game" ]_vars

\* C10 witness: an AI game that returned after four turns
C10_Witness == PLAY_TYPE = 1 /\ strategy \in 0..5 /\ pc = "done" /\ Len(moves) = 4

\* ai_player is called with the strategy k on a non-empty list of legal moves
AiCall(k) == pc = "moves" /\ strategy = k /\ possible_moves # <<>>

\* ai_player has returned under the strategy k
AiReturned(k) == pc = "chosen" /\ strategy = k /\ move # <<>>

\* C11: for every strategy 0..5, every non-empty list of legal moves that
\* get_possible_moves produced and every dice pair, ai_player returns one
\* move, and that move has the tiles of one element of the list it was given.
C11_ChosenMoveIsLegal ==
    [][ \A k \in 0..5 :
          AiCall(k) =>
             /\ move' # <<>>
             /\ \E i \in 1..Len(possible_moves) : move' = possible_moves[i]
             /\ \E S \in SUBSET Range(tiles) : S # {} /\ SumSet(S) = dice1 + dice2
                                                /\ move' = SortedSeq(S) ]_vars

\* strategy 1 has answered a roll whose total is a closed tile
C11_Witness ==
    /\ AiReturned(1)
    /\ dice1 + dice2 <= NumTiles
    /\ dice1 + dice2 \notin Range(tiles)
    /\ \E i \in 1..Len(possible_moves) : move = possible_moves[i]

\* C12: strategy 1 chooses the singleton move [total] whenever it is one of
\* the legal moves; with tiles 1..9 and the roll (3,4) it chooses [7].
C12_SingleTileFirst ==
    [][ (AiCall(1) /\ \E i \in 1..Len(possible_moves) :
                         possible_moves[i] = << dice1 + dice2 >>)
           => move' = << dice1 + dice2 >> ]_vars

\* the position of the first element of the list pm that equals m
FirstIndex(pm, m) == CHOOSE i \in 1..Len(pm) : pm[i] = m /\ \A k \in 1..(i - 1) : pm[k] # m

\* C13: under strategy 2 no legal move has more tiles than the chosen move,
\* and every legal move earlier in the enumeration order has fewer tiles; with
\* tiles 1..9 and a total of 9 the chosen move has three tiles.
C13_MostTilesFirst ==
    [][ AiCall(2) =>
          /\ \E i \in 1..Len(possible_moves) : move' = possible_moves[i]
          /\ \A k \in 1..Len(possible_moves) : Len(possible_moves[k]) <= Len(move')
          /\ \A k \in 1..(FirstIndex(possible_moves, move') - 1) :
                 Len(possible_moves[k]) < Len(move')
          /\ (tiles = InitialTiles /\ dice1 + dice2 = 9) => Len(move') = 3 ]_vars

\* strategy 2 has answered a total of 9 on the full box, where several moves
\* have three tiles
C13_Witness ==
    /\ AiReturned(2)
    /\ tiles = InitialTiles
    /\ dice1 + dice2 = 9
    /\ Len(move) = 3
    /\ Cardinality({ i \in 1..Len(possible_moves) : Len(possible_moves[i]) = 3 }) > 1

\* the weights stated for the tiles 1..9, in units of 1/36
StatedWeights == << 30, 30, 29, 27, 24, 20, 15, 9, 4 >>

\* the score of a move: the sum of the stated weights of its tiles
RECURSIVE StatedScore(_)
StatedScore(m) == IF m = <<>> THEN 0 ELSE StatedWeights[Head(m)] + StatedScore(Tail(m))

\* C14: under strategy 3 the tiles 1..9 weigh 30, 30, 29, 27, 24, 20, 15, 9
\* and 4 thirty-sixths, a move scores the sum of the weights of its tiles, and
\* the chosen move has the least score of the legal moves, the first such in
\* enumeration order when scores tie.
C14_LeastScoreFirst ==
    [][ AiCall(3) =>
          /\ \A i \in 1..NumTiles : TileProbability(i) = StatedWeights[i]
          /\ \A k \in 1..Len(possible_moves) :
                 MoveProbability(possible_moves[k]) = StatedScore(possible_moves[k])
          /\ \E i \in 1..Len(possible_moves) : move' = possible_moves[i]
          /\ \A k \in 1..Len(possible_moves) :
                 StatedScore(move') <= StatedScore(possible_moves[k])
          /\ \A k \in 1..(FirstIndex(possible_moves, move') - 1) :
                 StatedScore(move') < StatedScore(possible_moves[k]) ]_vars

\* strategy 3 has chosen between legal moves of different scores
C14_Witness ==
    /\ AiReturned(3)
    /\ \E k \in 1..Len(possible_moves) : StatedScore(move) < StatedScore(possible_moves[k])
    /\ \A k \in 1..Len(possible_moves) : StatedScore(move) <= StatedScore(possible_moves[k])

\* the distance from the middle tile 5 of the tile of the move m nearest to it
NearestDistance(m) ==
    CHOOSE d \in 0..NumTiles : /\ \E i \in 1..Len(m) : Abs(m[i] - 5) = d
                               /\ \A i \in 1..Len(m) : Abs(m[i] - 5) >= d

\* the tiles occurring in any move of the list pm
TilesOfMoves(pm) == UNION { Range(pm[i]) : i \in 1..Len(pm) }

\* C15: under strategy 4 the chosen move has the least key min(|tile - 5|)
\* of the legal moves, that is, it contains a tile as close to 5 as any tile
\* occurring in any legal move, and it is the first move of least key in
\* enumeration order.
C15_InsideOutFirst ==
    [][ AiCall(4) =>
          /\ \E i \in 1..Len(possible_moves) : move' = possible_moves[i]
          /\ \A k \in 1..Len(possible_moves) :
                 NearestDistance(move') <= NearestDistance(possible_moves[k])
          /\ \E x \in Range(move') : \A y \in TilesOfMoves(possible_moves) :
                 Abs(x - 5) <= Abs(y - 5)
          /\ \A k \in 1..(FirstIndex(possible_moves, move') - 1) :
                 NearestDistance(move') < NearestDistance(possible_moves[k]) ]_vars

\* strategy 4 has passed over the first legal move for a later one nearer to
\* the middle, and a still later move is as near
C15_Witness ==
    /\ AiReturned(4)
    /\ move # GetPossibleMoves(tiles, dice1 + dice2)[1]
    /\ move = possible_moves[1]
    /\ Len(possible_moves) > 1
    /\ NearestDistance(possible_moves[2]) = NearestDistance(move)

\* C16: under strategy 5 the chosen move has the greatest key min(|tile - 5|)
\* of the legal moves, and it is the first move of greatest key in enumeration
\* order.
C16_OutsideInFirst ==
    [][ AiCall(5) =>
          /\ \E i \in 1..Len(possible_moves) : move' = possible_moves[i]
          /\ \A k \in 1..Len(possible_moves) :
                 NearestDistance(move') >= NearestDistance(possible_moves[k])
          /\ \A k \in 1..(FirstIndex(possible_moves, move') - 1) :
                 NearestDistance(move') > NearestDistance(possible_moves[k]) ]_vars

\* strategy 5 has passed over the first legal move for a later one, and a
\* still later move has the same key
C16_Witness ==
    /\ AiReturned(5)
    /\ move # GetPossibleMoves(tiles, dice1 + dice2)[1]
    /\ move = possible_moves[1]
    /\ \E k \in 2..Len(possible_moves) :
           NearestDistance(possible_moves[k]) = NearestDistance(move)

\* C17: under strategy 5 the chosen move includes a tile whose distance from
\* 5 is the largest among all tiles occurring in any legal move.
C17_ContainsFarthestTile ==
    [][ AiCall(5) =>
          \E x \in Range(move') : \A y \in TilesOfMoves(possible_moves) :
              Abs(x - 5) >= Abs(y - 5) ]_vars

\* C18: a game whose strategy tag is outside 0..5 (the default None included)
\* fails with an unknown-strategy error that reaches the caller of play_game:
\* no move is ever selected or applied for it, and it never ends without an error.
C18_UnknownStrategyFails ==
    strategy \notin 0..5 =>
        /\ move = <<>>
        /\ moves = <<>>
        /\ tiles = InitialTiles
        /\ pc = "done" => error # "none"

\* C19: in autonomous play (PLAY_TYPE 1, strategy 0..5) the move ai_player
\* returned always passes is_valid_move: the invalid-move branch of play_turn
\* is never taken and make_move never fails.
C19_AiMoveAlwaysValid ==
    /\ [](error = "none" /\ pc # "raised")
    /\ [](pc = "validate" =>
             /\ IsValidMove(tiles, move, dice1 + dice2)
             /\ SumSeq(move) = dice1 + dice2
             /\ Distinct(move)
             /\ Range(move) \subseteq Range(tiles))
    /\ [][ pc = "validate" =>
             /\ invalid_move' = FALSE
             /\ moves' = Append(moves, move)
             /\ Range(tiles') = Range(tiles) \ Range(move) ]_vars

\* a third move of one game has been selected and applied
C19_Witness ==
    /\ PLAY_TYPE = 1
    /\ strategy \in 0..5
    /\ Len(moves) = 3
    /\ invalid_move = FALSE
    /\ Len(tiles) < NumTiles - 3

\* the singleton of the total is one of the legal moves
SingletonLegal == \E i \in 1..Len(possible_moves) : possible_moves[i] = << dice1 + dice2 >>

\* the positions of the legal moves whose tile set is that of the two dice
DiceMoves == { i \in 1..Len(possible_moves) : Range(possible_moves[i]) = {dice1, dice2} }

\* C20: under strategy 1, when the singleton [total] is not legal and some
\* legal move has the tile set {die1, die2}, the chosen move is the first such
\* move in enumeration order; when neither rule applies the chosen move is an
\* unconstrained member of the list: any of its elements may be returned.
C20_DiceTierThenRandom ==
    /\ [][ (AiCall(1) /\ ~SingletonLegal) =>
              IF DiceMoves # {}
              THEN \E i \in DiceMoves : /\ move' = possible_moves[i]
                                        /\ \A k \in DiceMoves : i <= k
              ELSE move' \in Range(possible_moves) ]_vars
    /\ []( (AiCall(1) /\ ~SingletonLegal /\ DiceMoves = {}) =>
              AiPlayer(strategy, possible_moves, dice1, dice2, dice1 + dice2)
                  = Range(possible_moves) )

\* strategy 1 has answered with the two dice faces where the total is closed
\* and other moves were legal
C20_Witness ==
    /\ AiReturned(1)
    /\ dice1 + dice2 \notin Range(tiles)
    /\ Range(move) = {dice1, dice2}
    /\ move # possible_moves[1]

\* strategy 1 has answered where neither the total nor the dice faces are a move
C20_RandomTierReached ==
    /\ AiReturned(1)
    /\ dice1 + dice2 \notin Range(tiles)
    /\ DiceMoves = {}
    /\ move = possible_moves[Len(possible_moves)]
    /\ Len(possible_moves) > 1

\* C21: ai_player is a pure selection: for every strategy 0..5 the list of
\* legal moves it was given has, after the call, the same elements in the
\* same order as before, and the tiles, the recorded rolls, the recorded
\* moves and game_over are unchanged.
C21_AiPlayerIsPure ==
    [][ \A k \in 0..5 :
          AiCall(k) =>
             /\ possible_moves' = possible_moves
             /\ tiles' = tiles
             /\ rolls' = rolls
             /\ moves' = moves
             /\ game_over' = game_over ]_vars

\* one move fixed by the strategy, the tiles and the dice pair alone
DeterminedMove ==
    CHOOSE m \in AiPlayer(strategy, GetPossibleMoves(tiles, dice1 + dice2),
                          dice1, dice2, dice1 + dice2) : TRUE

\* C22: strategies 2, 3, 4 and 5 are deterministic: the chosen move is a
\* function of the tiles and the dice pair, so two games in the same tile set
\* with the same dice pair choose the same move; move selection draws at
\* random only in strategy 0 and in the last fallback of strategy 1.
C22_Deterministic ==
    [][ /\ \A k \in 2..5 : AiCall(k) => move' = DeterminedMove
        /\ (AiCall(1) /\ DiceMoves # {}) => move' = DeterminedMove ]_vars

\* a deterministic strategy has chosen among several moves that tie on its key
C22_Witness ==
    /\ \E k \in 2..5 : AiReturned(k)
    /\ move = DeterminedMove
    /\ strategy = 2 => \E i \in 1..Len(possible_moves) :
                           possible_moves[i] # move /\ Len(possible_moves[i]) = Len(move)
    /\ strategy \in {4, 5} => \E i \in 1..Len(possible_moves) :
                           /\ possible_moves[i] # move
                           /\ NearestDistance(possible_moves[i]) = NearestDistance(move)
    /\ Len(possible_moves) > 2

\* C23: play_turn never invokes ai_player with an empty list of legal moves:
\* in every turn a roll without legal move is detected first, ends the game
\* and skips the selection of a move.
C23_NoSelectionOnEmptyList ==
    /\ [](pc = "select" => possible_moves # <<>>)
    /\ [][ StuckRoll => /\ game_over'
                        /\ pc' \notin {"select", "validate"}
                        /\ move' = move
                        /\ moves' = moves
                        /\ tiles' = tiles ]_vars

\* a stuck roll has just ended a game after its first move, no further move selected
C23_Witness ==
    /\ pc = "play_game"
    /\ game_over
    /\ Len(moves) = 1
    /\ Len(rolls) = 1
    /\ move = moves[1]
    /\ possible_moves = <<>>

\* the sequence s is in strictly ascending order
Ascending(s) == \A i \in 1..(Len(s) - 1) : s[i] < s[i + 1]

\* a comes before b in lexicographic order of the tile values
LexLess(a, b) ==
    \E k \in 1..Len(a) : /\ k <= Len(b)
                         /\ a[k] < b[k]
                         /\ \A l \in 1..(k - 1) : a[l] = b[l]

\* the order stated for a list of moves: by number of tiles, then lexicographic
InStatedOrder(pm) ==
    /\ \A i \in 1..Len(pm) : Ascending(pm[i])
    /\ \A i, j \in 1..Len(pm) :
          i < j => \/ Len(pm[i]) < Len(pm[j])
                   \/ Len(pm[i]) = Len(pm[j]) /\ LexLess(pm[i], pm[j])

\* C24: get_possible_moves returns the legal moves in one fixed order: moves
\* with fewer tiles before moves with more tiles, moves of equal size in
\* lexicographic order of their tile values, each move with its tiles in
\* strictly ascending order; this holds in every reachable game state, for
\* every total, because the tile list stays in ascending order.
C24_EnumerationOrder ==
    /\ Ascending(tiles)
    /\ \A total \in 2..(2 * DieMax) : InStatedOrder(GetPossibleMoves(tiles, total))
    /\ pc = "select" => /\ possible_moves = GetPossibleMoves(tiles, dice1 + dice2)
                        /\ InStatedOrder(possible_moves)

\* in a game under way a roll has several legal moves of two sizes, two of
\* them of the same size
C24_Witness ==
    /\ pc = "select"
    /\ Len(moves) >= 2
    /\ Len(possible_moves) >= 3
    /\ Len(possible_moves[1]) = Len(possible_moves[2])
    /\ Len(possible_moves[1]) < Len(possible_moves[Len(possible_moves)])

\* the submitted move does not sum to the roll or names a tile that is not open
Rejected ==
    /\ pc = "validate"
    /\ \/ SumSeq(move) # dice1 + dice2
       \/ \E i \in 1..Len(move) : move[i] \notin Range(tiles)

\* C25: when a move submitted by the player fails is_valid_move in play_turn,
\* nothing is lost: the tiles, the recorded moves and the recorded rolls are
\* unchanged, no new dice are rolled, and the next attempt is judged against
\* the same roll total and the same list of legal moves.
C25_InvalidMoveRecoverable ==
    /\ [][ (PLAY_TYPE = 0 /\ Rejected) =>
              /\ tiles' = tiles
              /\ moves' = moves
              /\ rolls' = rolls
              /\ dice1' = dice1 /\ dice2' = dice2
              /\ possible_moves' = possible_moves
              /\ invalid_move'
              /\ ~game_over'
              /\ error' = "none"
              /\ pc' = "enumerate" ]_vars
    /\ [][ (PLAY_TYPE = 0 /\ pc = "enumerate" /\ possible_moves # <<>>) =>
              /\ possible_moves' = possible_moves
              /\ tiles' = tiles /\ rolls' = rolls /\ moves' = moves
              /\ dice1' = dice1 /\ dice2' = dice2
              /\ pc' = "select" ]_vars

\* after a rejected move the player is asked again about the same roll
C25_Witness ==
    /\ PLAY_TYPE = 0
    /\ pc = "select"
    /\ invalid_move
    /\ move # <<>>
    /\ ~IsValidMove(tiles, move, dice1 + dice2)
    /\ Len(rolls) = Len(moves) + 1
    /\ Len(moves) >= 1

\* C26: roll_dice, get_possible_moves and is_valid_move leave the tiles, the
\* recorded rolls, the recorded moves and game_over unchanged, so a repeated
\* is_valid_move or get_possible_moves with the same arguments on the
\* unchanged tiles gives the same result every time.
C26_QueriesChangeNothing ==
    /\ [][ (pc \in {"api", "rolled", "moves", "judged"}) =>
              (tiles' = tiles /\ rolls' = rolls /\ moves' = moves
                              /\ game_over' = game_over) ]_vars
    /\ [][ (pc = "moves" /\ pc' = "moves") => possible_moves' = possible_moves ]_vars
    /\ [][ (pc = "judged" /\ pc' = "judged" /\ move' = move) =>
              invalid_move' = invalid_move ]_vars

\* is_valid_move has accepted a typed move on a tile set that is not full
C26_Witness ==
    /\ pc = "judged"
    /\ ~invalid_move
    /\ Len(tiles) < NumTiles
    /\ Len(move) = 2
    /\ \E i \in 1..Len(possible_moves) : possible_moves[i] = move

\* a turn boundary: no turn is in progress
TurnBoundary == pc \in {"play_game", "done"}

\* C27: at every turn boundary the recorded rolls and the recorded moves are
\* aligned: they have the same length, each die of every recorded roll is in
\* 1..6, and the tiles of the i-th recorded move sum to die1 + die2 of the
\* i-th recorded roll.
C27_RollsAndMovesAligned ==
    TurnBoundary =>
        /\ Len(rolls) = Len(moves)
        /\ \A i \in 1..Len(rolls) :
              /\ Len(rolls[i]) = 2
              /\ rolls[i][1] \in 1..6
              /\ rolls[i][2] \in 1..6
        /\ \A i \in 1..Len(moves) :
              i <= Len(rolls) => SumSeq(moves[i]) = rolls[i][1] + rolls[i][2]

\* a game has ended on a stuck roll after moves made on different totals
C27_Witness ==
    /\ TurnBoundary
    /\ game_over
    /\ tiles # <<>>
    /\ Len(rolls) >= 3
    /\ Len(rolls) = Len(moves)
    /\ rolls[1][1] + rolls[1][2] # rolls[2][1] + rolls[2][2]

\* C28: under strategy 3, whenever the tile equal to the roll total is open,
\* the chosen move is the singleton of that tile: the weight of the single
\* tile is strictly smaller than the score of every legal move of several
\* tiles with the same sum.
C28_SingleTileIsLeastProbable ==
    [][ (AiCall(3) /\ dice1 + dice2 \in Range(tiles)) =>
           /\ move' = << dice1 + dice2 >>
           /\ \A k \in 1..Len(possible_moves) :
                 Len(possible_moves[k]) > 1 =>
                     MoveProbability(<< dice1 + dice2 >>) < MoveProbability(possible_moves[k])
           /\ \A S \in SUBSET Range(tiles) :
                 (Cardinality(S) > 1 /\ SumSet(S) = dice1 + dice2) =>
                     TileProbability(dice1 + dice2) < MoveProbability(SortedSeq(S)) ]_vars

\* strategy 3 has taken the single tile where moves of two and of three tiles
\* were legal as well
C28_Witness ==
    /\ AiReturned(3)
    /\ move = << dice1 + dice2 >>
    /\ \E i \in 1..Len(possible_moves) : Len(possible_moves[i]) = 2
    /\ \E i \in 1..Len(possible_moves) : Len(possible_moves[i]) = 3

\* C29: every legal move of every reachable game state has between 1 and 4
\* tiles, so pad_moves with length 5 never receives a longer move and every
\* move in the trace play_game returns has exactly 5 entries: the tiles of
\* the move followed only by zeros.
C29_PaddedMovesHaveFiveEntries ==
    /\ \A S \in SUBSET Range(tiles) :
          (S # {} /\ SumSet(S) \in 2..12) => Cardinality(S) \in 1..4
    /\ \A i \in 1..Len(possible_moves) : Len(possible_moves[i]) \in 1..4
    /\ \A i \in 1..Len(moves) : Len(moves[i]) \in 1..4
    /\ pc = "done" =>
          /\ Len(padded_moves) = Len(moves)
          /\ \A i \in 1..Len(moves) :
                /\ Len(padded_moves[i]) = 5
                /\ \A j \in 1..5 :
                      padded_moves[i][j] = IF j <= Len(moves[i]) THEN moves[i][j] ELSE 0

\* play_game has returned a trace with a move of four tiles and a move of two
C29_Witness ==
    /\ pc = "done"
    /\ \E i \in 1..Len(moves) : Len(moves[i]) = 4 /\ padded_moves[i][5] = 0
    /\ \E i \in 1..Len(moves) : Len(moves[i]) = 2 /\ padded_moves[i][3] = 0

====
